---- MODULE Spec2Model ----
(***************************************************************************)
(* Model of the conversion pipeline of ggml-converter-service              *)
(* (src/ggml-converter-service/src/main.rs): the handler json_request and  *)
(* the four stage functions it awaits in order,                            *)
(*   download_and_build_llama_cpp, download_llama2_models,                 *)
(*   convert_to_ggml, quantize_ggml.                                       *)
(*                                                                         *)
(* State: the filesystem (directories and regular files, as sets of        *)
(* paths), the process-wide current working directory, the holder of the   *)
(* MODELS mutex, and per request its position in the code, its request     *)
(* body and its local variables.  obs, lastTc and lastFetch are history    *)
(* variables: they record what a request invoked and how its stages ended, *)
(* and never influence a step.                                             *)
(*                                                                         *)
(* A path is the sequence of its components.  A string that the code       *)
(* splits on '/' is the sequence of its '/'-separated segments.            *)
(* External tools are modelled by their exit (spawn error, exit 0, exit    *)
(* non-zero, chosen freely) and by what their command line makes them      *)
(* write, relative to the working directory where the code gives a         *)
(* relative path or none.                                                  *)
(***************************************************************************)
EXTENDS Naturals, Sequences, FiniteSets, TLC

VARIABLES dirs, files, cwd, lock, pc, req, loc, obs, lastTc, lastFetch

vars == <<dirs, files, cwd, lock, pc, req, loc, obs, lastTc, lastFetch>>

\* Number of requests the service receives in a behaviour.
NumReq == 2

Reqs == 1..NumReq

(***************************************************************************)
(* Paths (std::path::Path / PathBuf)                                       *)
(***************************************************************************)
NoPath == <<>>

Root == <<"root">>

\* The directory the service is started in: the crate directory.
ServiceDir == <<"root", "ggml-converter-service">>

Join(p, n) == Append(p, n)

Parent(p) == SubSeq(p, 1, Len(p) - 1)

IsPrefix(p, q) == Len(p) <= Len(q) /\ SubSeq(q, 1, Len(p)) = p

\* Path::exists and Path::is_file on the modelled filesystem.
Exists(p) == p \in dirs \/ p \in files

IsFile(p) == p \in files

\* A relative path handed to Path::new or to a tool resolves against cwd.
Rel(n) == Join(cwd, n)

(***************************************************************************)
(* The request body and the registry                                       *)
(***************************************************************************)
ModelType == {"Llama2_7b", "Llama2Chat7b", "Llama2Chinese7b"}

QuantInfo == {"Q4", "Q8", "F16", "F32"}

\* Display for ModelType, as the segments split('/') yields.
ModelTypeToString(t) ==
  CASE t = "Llama2_7b" -> <<"meta-llama", "Llama-2-7b-hf">>
    [] t = "Llama2Chat7b" -> <<"meta-llama", "Llama-2-7b-chat-hf">>
    [] t = "Llama2Chinese7b" -> <<"LinkSoul", "Chinese-Llama-2-7b">>

\* name.to_string().split('/').collect::<Vec<&str>>()[1] (0-based index 1).
RepoName(t) == ModelTypeToString(t)[2]

\* Display for QuantInfo.
QuantInfoToString(q) ==
  CASE q = "Q4" -> "q4_0"
    [] q = "Q8" -> "q8_0"
    [] q = "F16" -> "f16"
    [] q = "F32" -> "f32"

\* The static MODELS map: name -> url, both as '/'-separated segments.
MODELS ==
  [k \in {<<"meta-llama", "Llama-2-7b-hf">>, <<"meta-llama", "Llama-2-7b-chat-hf">>} |->
     <<"https:", "", "huggingface.co">> \o k]

\* HashMap::get on MODELS: Some(url) as <<url>>, None as <<>>.
ModelsGetAll(k) == <<<<"https:", "", "huggingface.co">> \o k>>

ModelsGet(k) == IF k \in DOMAIN MODELS THEN <<MODELS[k]>> ELSE <<>>

\* `git clone <url>` with no directory argument clones into ./<last segment>.
CloneDest(dir, url) == Join(dir, url[Len(url)])

CODE_BASE == "d2a4366"

ArchiveName == "master-" \o CODE_BASE \o ".tar.gz"

ExtractedName == "llama.cpp-master-" \o CODE_BASE

\* format!("{}-ggml.{}", repo, "bin")
OutFilename(t) == RepoName(t) \o "-ggml." \o "bin"

\* format!("{}-ggml-{}.{}", repo, quant_info, "bin")
QuantizedFilename(t, q) == RepoName(t) \o "-ggml-" \o QuantInfoToString(q) \o "." \o "bin"

\* How an external command can end.
SpawnErr == "spawn_err"
ExitOk == "exit_ok"
ExitFail == "exit_fail"
Outcomes == {SpawnErr, ExitOk, ExitFail}

(***************************************************************************)
(* Initial state                                                           *)
(***************************************************************************)
LlamaCppRoot == Join(Root, "llama.cpp")

ModelsRoot == Join(Root, "models")

\* Request bodies the clients send.
ReqNames == ModelType

ReqQuants == {"Q4", "F16"}

NoTree == [dirs |-> {}, files |-> {}]

InitReq == [name |-> "Llama2_7b", quant_info |-> "Q4"]

InitLoc ==
  [curr_dir |-> NoPath, llama_cpp_dir |-> NoPath, model_repo_dir |-> NoPath,
   url |-> NoPath, success |-> FALSE, retries |-> 0, spawn_cwd |-> NoPath,
   outputs_dir |-> NoPath, outfile |-> NoPath, quantized_outfile |-> NoPath]

InitObs ==
  [tcProcs |-> 0, tcRes |-> "none", tcAfterOk |-> FALSE, tcPrevProcs |-> 0,
   acquired |-> FALSE, lcdAbsentAfter |-> FALSE, makeInv |-> 0, verifyExit |-> "none",
   clones |-> 0, cloneOk |-> FALSE, fetchRes |-> "none", fetchAfterOk |-> FALSE,
   dirMissing |-> FALSE,
   convInv |-> 0, convExit |-> "none", convStale |-> FALSE, convOutAtInv |-> FALSE,
   convRes |-> "none",
   redInv |-> 0, redExit |-> "none", redStale |-> FALSE, redOutAtInv |-> FALSE,
   redRes |-> "none",
   response |-> NoPath, failStage |-> "none",
   cleanStart |-> FALSE, toolFailed |-> FALSE, attempts |-> <<>>,
   stages |-> <<>>, produced |-> {},
   rec |-> FALSE, seen |-> "none", lockAtCheck |-> 0, locked |-> FALSE]

\* The service starts in its crate directory.  The checkout may or may not
\* already hold a llama.cpp tree (with or without convert.py) and fetched
\* model repositories under models/.
Init ==
  /\ \E lc \in BOOLEAN, conv \in BOOLEAN, have \in SUBSET {"Llama2_7b", "Llama2Chinese7b"} :
       /\ (conv => lc)
       /\ dirs = {Root, ServiceDir}
                 \cup (IF lc THEN {LlamaCppRoot} ELSE {})
                 \cup (IF have = {} THEN {} ELSE {ModelsRoot})
                 \cup {Join(ModelsRoot, RepoName(t)) : t \in have}
       /\ files = IF conv THEN {Join(LlamaCppRoot, "convert.py")} ELSE {}
  /\ cwd = ServiceDir
  /\ lock = 0
  /\ pc = [r \in Reqs |-> "idle"]
  /\ req = [r \in Reqs |-> InitReq]
  /\ loc = [r \in Reqs |-> InitLoc]
  /\ obs = [r \in Reqs |-> InitObs]
  /\ lastTc = [res |-> "none", cwd |-> NoPath, entryCwd |-> NoPath, procs |-> 0,
               tree |-> NoTree]
  /\ lastFetch = [name |-> "none", cloneOk |-> FALSE, cwd |-> NoPath,
                  view |-> <<NoTree, NoTree>>]

(***************************************************************************)
(* Effects of the file tools                                               *)
(***************************************************************************)
\* `mv src dst`: into dst when dst is a directory, onto dst otherwise.
MvTarget(src, dst) == IF dst \in dirs THEN Join(dst, src[Len(src)]) ELSE dst

Moved(set, src, tgt) ==
  {p \in set : ~IsPrefix(src, p)}
  \cup {tgt \o SubSeq(p, Len(src) + 1, Len(p)) : p \in {q \in set : IsPrefix(src, q)}}

\* The part of a filesystem <<ds, fs>> under directory d.
TreeOf(ds, fs, d) == [dirs |-> {p \in ds : IsPrefix(d, p)}, files |-> {p \in fs : IsPrefix(d, p)}]

Tree(d) == TreeOf(dirs, files, d)

(***************************************************************************)
(* json_request: a request arrives                                         *)
(***************************************************************************)
Running(r) == pc[r] \notin {"idle", "done", "panicked"}

\* Requests are handled one after the other.
MayBegin(r) ==
  /\ \A q \in Reqs : ~Running(q)
  /\ \A q \in Reqs : q < r => pc[q] # "idle"

AfterStageSkipsFetch(stage) ==
  CASE stage = "Request" -> "tc_entry"
    [] stage = "Toolchain" -> "outputs"
    [] stage = "Fetch" -> "outputs"
    [] stage = "Convert" -> "quant_entry"
    [] stage = "Reduce" -> "respond"

\* Where json_request goes on once a stage has returned Ok: the four stage
\* functions are awaited one after the other, then the response is built.
AfterStage(stage) ==
  CASE stage = "Request" -> "tc_entry"
    [] stage = "Toolchain" -> "fetch_entry"
    [] stage = "Fetch" -> "outputs"
    [] stage = "Convert" -> "quant_entry"
    [] stage = "Reduce" -> "respond"

\* The history obs[r] of what request r did and saw is kept for the requests
\* handled one at a time; a request that may overlap others keeps only what
\* its presence check saw and whether it took the MODELS lock.
Hist(r, o) == IF obs[r].rec THEN o ELSE obs

Seen(r, what, o) == [o EXCEPT ![r].seen = what, ![r].lockAtCheck = lock]

\* Nothing on disk but the checkout itself.
CleanFilesystem == dirs = {Root, ServiceDir} /\ files = {}

\* A request's body and locals live for the call: the records of the requests
\* that have ended are dropped when the next one arrives.
Begin(r, quants, rec) ==
  /\ pc[r] = "idle"
  /\ \E n \in ReqNames, q \in quants :
       req' = [x \in Reqs |-> IF x = r THEN [name |-> n, quant_info |-> q]
                              ELSE IF Running(x) THEN req[x] ELSE InitReq]
  /\ loc' = [x \in Reqs |-> IF Running(x) THEN loc[x] ELSE InitLoc]
  /\ obs' = [x \in Reqs |-> IF x = r
                              THEN IF rec
                                   THEN [InitObs EXCEPT !.cleanStart = CleanFilesystem,
                                                        !.rec = TRUE]
                                   ELSE InitObs
                              ELSE IF Running(x) THEN obs[x] ELSE InitObs]
  /\ pc' = [pc EXCEPT ![r] = AfterStage("Request")]
  /\ UNCHANGED <<dirs, files, cwd, lock, lastTc, lastFetch>>

\* One client posting one request after the other.
json_request(r) == MayBegin(r) /\ Begin(r, ReqQuants, TRUE)

\* The overlapping requests ask for the same quantization.
ConcQuants == {"Q4"}

\* Several clients: axum runs each connection's handler as its own task on
\* the multi-threaded runtime, so a request may arrive while others run.
json_request_concurrent(r) ==
  /\ \A q \in Reqs : q < r => pc[q] # "idle"
  /\ Begin(r, ConcQuants, FALSE)

(***************************************************************************)
(* download_and_build_llama_cpp                                            *)
(***************************************************************************)
\* The function returns; an Err is unwrapped by json_request, which panics.
TcReturned(r, res, newcwd, procs) ==
  [res |-> res, cwd |-> newcwd, entryCwd |-> loc[r].curr_dir, procs |-> procs,
   tree |-> TreeOf(dirs, files, loc[r].llama_cpp_dir)]

tc_entry(r) ==
  /\ pc[r] = "tc_entry"
  /\ LET lcd == Join(Parent(cwd), "llama.cpp") IN
       /\ loc' = [loc EXCEPT ![r].curr_dir = cwd, ![r].llama_cpp_dir = lcd]
       /\ obs' = Hist(r, [obs EXCEPT ![r].tcAfterOk =
                                  /\ lastTc.res = "ok"
                                  /\ lastTc.cwd = cwd
                                  /\ lastTc.tree = Tree(lcd),
                              ![r].tcPrevProcs = lastTc.procs,
                              ![r].stages = Append(@, "Toolchain")])
       /\ pc' = [pc EXCEPT ![r] = IF ~Exists(lcd) THEN "wget" ELSE "build_check"]
  /\ UNCHANGED <<dirs, files, cwd, lock, req, lastTc, lastFetch>>

\* Command::new("wget").arg(&url).status()?
tc_wget(r) ==
  /\ pc[r] = "wget"
  /\ \E o \in Outcomes :
       IF o = SpawnErr
       THEN /\ pc' = [pc EXCEPT ![r] = "panicked"]
            /\ obs' = Hist(r, [obs EXCEPT ![r].tcProcs = @ + 1, ![r].tcRes = "err",
                                  ![r].toolFailed = TRUE,
                                  ![r].failStage = "Toolchain"])
            /\ lastTc' = TcReturned(r, "err", cwd, obs[r].tcProcs + 1)
            /\ UNCHANGED files
       ELSE /\ pc' = [pc EXCEPT ![r] = "tar"]
            /\ obs' = Hist(r, [obs EXCEPT ![r].tcProcs = @ + 1,
                                  ![r].toolFailed = @ \/ o # ExitOk])
            /\ files' = IF o = ExitOk THEN files \cup {Rel(ArchiveName)} ELSE files
            /\ UNCHANGED lastTc
  /\ UNCHANGED <<dirs, cwd, lock, req, loc, lastFetch>>

\* Command::new("tar").arg("-zxvf").arg("master-d2a4366.tar.gz").status(), result ignored
tc_tar(r) ==
  /\ pc[r] = "tar"
  /\ \E o \in Outcomes :
       /\ o = ExitOk => IsFile(Rel(ArchiveName))
       /\ dirs' = IF o = ExitOk THEN dirs \cup {Rel(ExtractedName)} ELSE dirs
       /\ files' = IF o = ExitOk
                   THEN files \cup {Join(Rel(ExtractedName), "convert.py")}
                   ELSE files
       /\ obs' = Hist(r, [obs EXCEPT ![r].tcProcs = @ + 1, ![r].toolFailed = @ \/ o # ExitOk])
  /\ pc' = [pc EXCEPT ![r] = "rm"]
  /\ UNCHANGED <<cwd, lock, req, loc, lastTc, lastFetch>>

\* Command::new("rm").arg("-rf").arg("master-{CODE_BASE}.tar.gz").status(), result ignored
tc_rm(r) ==
  /\ pc[r] = "rm"
  /\ \E o \in Outcomes :
       /\ files' = IF o = ExitOk THEN files \ {Rel(ArchiveName)} ELSE files
       /\ obs' = Hist(r, [obs EXCEPT ![r].tcProcs = @ + 1, ![r].toolFailed = @ \/ o # ExitOk])
  /\ pc' = [pc EXCEPT ![r] = "mv"]
  /\ UNCHANGED <<dirs, cwd, lock, req, loc, lastTc, lastFetch>>

\* Command::new("mv").arg("llama.cpp-master-{CODE_BASE}").arg("llama.cpp").status(), result ignored
tc_mv(r) ==
  /\ pc[r] = "mv"
  /\ LET src == Rel(ExtractedName)
         tgt == MvTarget(src, Rel("llama.cpp"))
     IN \E o \in Outcomes :
          /\ o = ExitOk => (src \in dirs /\ ~Exists(tgt))
          /\ dirs' = IF o = ExitOk THEN Moved(dirs, src, tgt) ELSE dirs
          /\ files' = IF o = ExitOk THEN Moved(files, src, tgt) ELSE files
          /\ obs' = Hist(r, [obs EXCEPT ![r].tcProcs = @ + 1, ![r].toolFailed = @ \/ o # ExitOk])
  /\ pc' = [pc EXCEPT ![r] = "tc_check"]
  /\ UNCHANGED <<cwd, lock, req, loc, lastTc, lastFetch>>

\* if !std::path::Path::new("llama.cpp").exists() { panic!(..) }
tc_check(r) ==
  /\ pc[r] = "tc_check"
  /\ IF ~Exists(Rel("llama.cpp"))
     THEN /\ pc' = [pc EXCEPT ![r] = "panicked"]
          /\ obs' = Hist(r, [obs EXCEPT ![r].tcRes = "panic", ![r].failStage = "Toolchain",
                                ![r].acquired = TRUE,
                                ![r].lcdAbsentAfter = ~Exists(loc[r].llama_cpp_dir)])
          /\ lastTc' = TcReturned(r, "panic", cwd, obs[r].tcProcs)
     ELSE /\ pc' = [pc EXCEPT ![r] = "build_check"]
          /\ obs' = Hist(r, [obs EXCEPT ![r].acquired = TRUE,
                                ![r].lcdAbsentAfter = ~Exists(loc[r].llama_cpp_dir)])
          /\ UNCHANGED lastTc
  /\ UNCHANGED <<dirs, files, cwd, lock, req, loc, lastFetch>>

QuantizerBuiltRel(lcd) == Exists(Rel("quantize")) /\ IsFile(Rel("quantize"))

\* quantizer.exists() && quantizer.is_file()
QuantizerBuilt(lcd) == Exists(Join(lcd, "quantize")) /\ IsFile(Join(lcd, "quantize"))

\* What a successful call leaves for the later stages: the tree and its binary.
ToolchainProduct(lcd) == {p \in {lcd, Join(lcd, "quantize")} : Exists(p)}

SetCurrentDirUnchecked(d) == TRUE

\* std::env::set_current_dir(d) succeeds when d is a directory
SetCurrentDir(d) == d \in dirs

\* the build is skipped when the binary is there, else the process enters the tree
tc_build_check(r) ==
  /\ pc[r] = "build_check"
  /\ LET lcd == loc[r].llama_cpp_dir IN
       IF QuantizerBuilt(lcd)
       THEN /\ pc' = [pc EXCEPT ![r] = AfterStage("Toolchain")]
            /\ obs' = Hist(r, [obs EXCEPT ![r].tcRes = "ok",
                                  ![r].produced = @ \cup ToolchainProduct(lcd)])
            /\ lastTc' = TcReturned(r, "ok", cwd, obs[r].tcProcs)
            /\ UNCHANGED cwd
       ELSE IF SetCurrentDir(lcd)
       THEN /\ pc' = [pc EXCEPT ![r] = "make"]
            /\ cwd' = lcd
            /\ UNCHANGED <<obs, lastTc>>
       ELSE /\ pc' = [pc EXCEPT ![r] = "panicked"]
            /\ obs' = Hist(r, [obs EXCEPT ![r].tcRes = "err", ![r].failStage = "Toolchain"])
            /\ lastTc' = TcReturned(r, "err", cwd, obs[r].tcProcs)
            /\ UNCHANGED cwd
  /\ UNCHANGED <<dirs, files, lock, req, loc, lastFetch>>

\* Command::new("make").arg("-j").status(), result ignored
tc_make(r) ==
  /\ pc[r] = "make"
  /\ \E o \in Outcomes, built \in BOOLEAN :
       /\ o = ExitOk => built
       /\ o = SpawnErr => ~built
       /\ files' = IF built THEN files \cup {Rel("quantize")} ELSE files
       /\ obs' = Hist(r, [obs EXCEPT ![r].tcProcs = @ + 1, ![r].makeInv = @ + 1,
                             ![r].toolFailed = @ \/ o # ExitOk])
  /\ pc' = [pc EXCEPT ![r] = "verify"]
  /\ UNCHANGED <<dirs, cwd, lock, req, loc, lastTc, lastFetch>>

\* Command::new("./quantize").arg("--help").status()?  (the exit status is only printed)
tc_verify(r) ==
  /\ pc[r] = "verify"
  /\ \E o \in Outcomes :
       /\ ~IsFile(Rel("quantize")) => o = SpawnErr
       /\ IF o = SpawnErr
          THEN /\ pc' = [pc EXCEPT ![r] = "panicked"]
               /\ obs' = Hist(r, [obs EXCEPT ![r].tcProcs = @ + 1, ![r].tcRes = "err",
                                     ![r].verifyExit = o, ![r].toolFailed = TRUE,
                                     ![r].failStage = "Toolchain"])
               /\ lastTc' = TcReturned(r, "err", cwd, obs[r].tcProcs + 1)
          ELSE /\ pc' = [pc EXCEPT ![r] = "restore"]
               /\ obs' = Hist(r, [obs EXCEPT ![r].tcProcs = @ + 1, ![r].verifyExit = o,
                                     ![r].toolFailed = @ \/ o # ExitOk])
               /\ UNCHANGED lastTc
  /\ UNCHANGED <<dirs, files, cwd, lock, req, loc, lastFetch>>

\* std::env::set_current_dir(curr_dir.as_path())?; Ok(llama_cpp_dir)
tc_restore(r) ==
  /\ pc[r] = "restore"
  /\ IF SetCurrentDir(loc[r].curr_dir)
     THEN /\ cwd' = loc[r].curr_dir
          /\ pc' = [pc EXCEPT ![r] = AfterStage("Toolchain")]
          /\ obs' = Hist(r, [obs EXCEPT ![r].tcRes = "ok",
                                ![r].produced = @ \cup ToolchainProduct(loc[r].llama_cpp_dir)])
          /\ lastTc' = TcReturned(r, "ok", loc[r].curr_dir, obs[r].tcProcs)
     ELSE /\ UNCHANGED cwd
          /\ pc' = [pc EXCEPT ![r] = "panicked"]
          /\ obs' = Hist(r, [obs EXCEPT ![r].tcRes = "err", ![r].failStage = "Toolchain"])
          /\ lastTc' = TcReturned(r, "err", cwd, obs[r].tcProcs)
  /\ UNCHANGED <<dirs, files, lock, req, loc, lastFetch>>

(***************************************************************************)
(* download_llama2_models                                                  *)
(***************************************************************************)
\* The number of clone attempts: `while !success && retries < 3`.
MaxRetries == 3

\* What a call for model n looks at and writes: models/ and the clone's target.
FetchView(ds, fs, c, n) ==
  <<TreeOf(ds, fs, Join(Parent(c), "models")), TreeOf(ds, fs, Join(c, RepoName(n)))>>

FetchReturned(r, ok, ds) ==
  [name |-> req[r].name, cloneOk |-> ok, cwd |-> cwd,
   view |-> FetchView(ds, files, cwd, req[r].name)]

PresenceCheckUnderLock(r) == lock \in {0, r}

\* model_repo_dir.exists() is evaluated before MODELS.lock() is called: the
\* presence check waits for nothing.
MayCheckPresence(r) == TRUE

\* models/ is created when absent; an existing model directory ends the call
fetch_entry(r) ==
  /\ pc[r] = "fetch_entry"
  /\ MayCheckPresence(r)
  /\ LET models_dir == Join(Parent(cwd), "models")
         model_repo_dir == Join(models_dir, RepoName(req[r].name))
         ds == IF ~Exists(models_dir) THEN dirs \cup {models_dir} ELSE dirs
         after == /\ lastFetch.name = req[r].name
                  /\ lastFetch.cloneOk
                  /\ lastFetch.cwd = cwd
                  /\ lastFetch.view = FetchView(dirs, files, cwd, req[r].name)
     IN /\ dirs' = ds
        /\ loc' = [loc EXCEPT ![r].curr_dir = cwd, ![r].model_repo_dir = model_repo_dir,
                              ![r].success = FALSE, ![r].retries = 0]
        /\ IF Exists(model_repo_dir)
           THEN /\ pc' = [pc EXCEPT ![r] = AfterStage("Fetch")]
                /\ obs' = Seen(r, "present",
                             Hist(r, [obs EXCEPT ![r].fetchAfterOk = after,
                                                 ![r].dirMissing = FALSE,
                                                 ![r].fetchRes = "ok",
                                                 ![r].stages = Append(@, "Fetch"),
                                                 ![r].produced = @ \cup {model_repo_dir}]))
                /\ lastFetch' = FetchReturned(r, FALSE, ds)
           ELSE /\ pc' = [pc EXCEPT ![r] = "lock"]
                /\ obs' = Seen(r, "absent",
                             Hist(r, [obs EXCEPT ![r].fetchAfterOk = after,
                                                 ![r].dirMissing = TRUE,
                                                 ![r].stages = Append(@, "Fetch")]))
                /\ UNCHANGED lastFetch
  /\ UNCHANGED <<files, cwd, lock, req, lastTc>>

DroppedAfterLookup(r) == 0

\* Who holds MODELS once the url is looked up: `url` borrows from the guard
\* `locked`, which lives to the end of the else block, through the loop.
HeldAfterLookup(r) == r

\* MODELS.lock().unwrap(), then locked.get(name).ok_or(..)?
fetch_lock(r) ==
  /\ pc[r] = "lock"
  /\ lock = 0
  /\ LET got == ModelsGet(ModelTypeToString(req[r].name)) IN
       IF got = <<>>
       THEN /\ pc' = [pc EXCEPT ![r] = "panicked"]
            /\ obs' = [Hist(r, [obs EXCEPT ![r].fetchRes = "err", ![r].failStage = "Fetch"])
                        EXCEPT ![r].locked = TRUE]
            /\ lastFetch' = FetchReturned(r, FALSE, dirs)
            /\ UNCHANGED <<lock, loc>>
       ELSE /\ pc' = [pc EXCEPT ![r] = "loop"]
            /\ lock' = HeldAfterLookup(r)
            /\ loc' = [loc EXCEPT ![r].url = got[1]]
            /\ obs' = [obs EXCEPT ![r].locked = TRUE]
            /\ UNCHANGED lastFetch
  /\ UNCHANGED <<dirs, files, cwd, req, lastTc>>

\* while !success && retries < 3
LoopAgainOffByOne(success, retries) == ~success /\ retries <= MaxRetries

LoopAgain(success, retries) == ~success /\ retries < MaxRetries

\* the loop test; leaving the loop unlocks MODELS and returns Ok(model_repo_dir)
fetch_loop(r) ==
  /\ pc[r] = "loop"
  /\ IF LoopAgain(loc[r].success, loc[r].retries)
     THEN /\ pc' = [pc EXCEPT ![r] = "clone"]
          /\ UNCHANGED <<lock, obs, lastFetch>>
     ELSE /\ pc' = [pc EXCEPT ![r] = AfterStage("Fetch")]
          /\ lock' = 0
          /\ obs' = Hist(r, [obs EXCEPT ![r].fetchRes = "ok",
                                ![r].attempts = <<>>,
                                ![r].produced = @ \cup
                                  (IF loc[r].success
                                   THEN {CloneDest(loc[r].spawn_cwd, loc[r].url)}
                                   ELSE {})])
          /\ lastFetch' = FetchReturned(r, loc[r].success, dirs)
  /\ UNCHANGED <<dirs, files, cwd, req, loc, lastTc>>

AttemptNotCounted(retries) == retries

\* the `_ =>` arm, taken for an Err(..) and for a non-zero exit alike: retries += 1
AfterFailedAttempt(retries) == retries + 1

\* Command::new("git").arg("clone").arg(url).output(): the process starts, or does not
fetch_clone(r) ==
  /\ pc[r] = "clone"
  /\ \E spawned \in BOOLEAN :
       IF spawned
       THEN /\ pc' = [pc EXCEPT ![r] = "cloning"]
            /\ loc' = [loc EXCEPT ![r].spawn_cwd = cwd]
            /\ obs' = Hist(r, [obs EXCEPT ![r].clones = @ + 1])
       ELSE /\ pc' = [pc EXCEPT ![r] = "loop"]
            /\ loc' = [loc EXCEPT ![r].retries = AfterFailedAttempt(@)]
            /\ obs' = Hist(r, [obs EXCEPT ![r].clones = @ + 1, ![r].toolFailed = TRUE,
                                  ![r].attempts = Append(@, SpawnErr)])
  /\ UNCHANGED <<dirs, files, cwd, lock, req, lastTc, lastFetch>>

\* the clone exits: Ok(output) if output.status.success(), or any other result
fetch_cloning(r) ==
  /\ pc[r] = "cloning"
  /\ \E o \in {ExitOk, ExitFail} :
       IF o = ExitOk
       THEN /\ dirs' = dirs \cup {CloneDest(loc[r].spawn_cwd, loc[r].url)}
            /\ loc' = [loc EXCEPT ![r].success = TRUE]
            /\ obs' = Hist(r, [obs EXCEPT ![r].cloneOk = TRUE, ![r].attempts = Append(@, ExitOk)])
       ELSE /\ loc' = [loc EXCEPT ![r].retries = AfterFailedAttempt(@)]
            /\ obs' = Hist(r, [obs EXCEPT ![r].toolFailed = TRUE,
                                  ![r].attempts = Append(@, ExitFail)])
            /\ UNCHANGED dirs
  /\ pc' = [pc EXCEPT ![r] = "loop"]
  /\ UNCHANGED <<files, cwd, lock, req, lastTc, lastFetch>>

(***************************************************************************)
(* json_request between the stages, convert_to_ggml, quantize_ggml         *)
(***************************************************************************)
\* outputs/ is created when absent; outfile = outputs/<repo>-ggml.bin
jr_outputs(r) ==
  /\ pc[r] = "outputs"
  /\ LET outputs_dir == Join(Parent(cwd), "outputs") IN
       /\ dirs' = IF ~Exists(outputs_dir) THEN dirs \cup {outputs_dir} ELSE dirs
       /\ loc' = [loc EXCEPT ![r].curr_dir = cwd, ![r].outputs_dir = outputs_dir,
                             ![r].outfile = Join(outputs_dir, OutFilename(req[r].name))]
  /\ pc' = [pc EXCEPT ![r] = "conv_entry"]
  /\ UNCHANGED <<files, cwd, lock, req, obs, lastTc, lastFetch>>

\* if outfile.exists() { std::fs::remove_file(outfile)?; }
KeepStale(fs, outfile) == fs

RemoveOutputs(fs, outfile) == {p \in fs : Parent(p) # Parent(outfile)}

RemoveStale(fs, outfile) == fs \ {outfile}

\* convert_to_ggml up to the invocation: stale output removed, converter looked for
conv_entry(r) ==
  /\ pc[r] = "conv_entry"
  /\ LET outfile == loc[r].outfile
         converter == Join(loc[r].llama_cpp_dir, "convert.py")
     IN IF Exists(outfile) /\ ~IsFile(outfile)
        THEN /\ pc' = [pc EXCEPT ![r] = "panicked"]
             /\ obs' = Hist(r, [obs EXCEPT ![r].convStale = TRUE, ![r].convRes = "err",
                                   ![r].stages = Append(@, "Convert"),
                                   ![r].failStage = "Convert"])
             /\ UNCHANGED files
        ELSE /\ files' = IF Exists(outfile) THEN RemoveStale(files, outfile) ELSE files
             /\ IF Exists(converter) /\ IsFile(converter)
                THEN /\ pc' = [pc EXCEPT ![r] = "convert"]
                     /\ obs' = Hist(r, [obs EXCEPT ![r].convStale = Exists(outfile),
                                           ![r].stages = Append(@, "Convert")])
                ELSE /\ pc' = [pc EXCEPT ![r] = "panicked"]
                     /\ obs' = Hist(r, [obs EXCEPT ![r].convStale = Exists(outfile),
                                           ![r].stages = Append(@, "Convert"),
                                           ![r].convRes = "panic",
                                           ![r].failStage = "Convert"])
  /\ UNCHANGED <<dirs, cwd, lock, req, loc, lastTc, lastFetch>>

\* What convert_to_ggml returns once python3 has exited with status o.
ConvertResult(o) == "ok"

\* Command::new("python3").arg(converter).arg(model_repo_dir).arg("--outfile").arg(outfile).output()?
conv_run(r) ==
  /\ pc[r] = "convert"
  /\ \E o \in Outcomes, wrote \in BOOLEAN :
       /\ o = ExitOk => wrote
       /\ o = SpawnErr => ~wrote
       /\ files' = IF wrote THEN files \cup {loc[r].outfile} ELSE files
       /\ LET res == IF o = SpawnErr THEN "err" ELSE ConvertResult(o) IN
            /\ obs' = Hist(r, [obs EXCEPT ![r].convInv = @ + 1, ![r].convExit = o,
                                  ![r].toolFailed = @ \/ o # ExitOk,
                                  ![r].convOutAtInv = Exists(loc[r].outfile),
                                  ![r].convRes = res,
                                  ![r].produced =
                                    IF res = "ok" /\ wrote THEN @ \cup {loc[r].outfile} ELSE @,
                                  ![r].failStage = IF res = "ok" THEN @ ELSE "Convert"])
            /\ pc' = [pc EXCEPT ![r] = IF res = "ok" THEN AfterStage("Convert") ELSE "panicked"]
  /\ UNCHANGED <<dirs, cwd, lock, req, loc, lastTc, lastFetch>>

\* quantized_outfile = outputs/<repo>-ggml-<quant>.bin; quantize_ggml up to the invocation
quant_entry(r) ==
  /\ pc[r] = "quant_entry"
  /\ LET outfile == Join(loc[r].outputs_dir, QuantizedFilename(req[r].name, req[r].quant_info))
     IN /\ loc' = [loc EXCEPT ![r].quantized_outfile = outfile]
        /\ IF Exists(outfile) /\ ~IsFile(outfile)
           THEN /\ pc' = [pc EXCEPT ![r] = "panicked"]
                /\ obs' = Hist(r, [obs EXCEPT ![r].redStale = TRUE, ![r].redRes = "err",
                                      ![r].stages = Append(@, "Reduce"),
                                      ![r].failStage = "Reduce"])
                /\ UNCHANGED files
           ELSE /\ files' = IF Exists(outfile) THEN RemoveStale(files, outfile) ELSE files
                /\ IF QuantizerBuilt(loc[r].llama_cpp_dir)
                   THEN /\ pc' = [pc EXCEPT ![r] = "quantize"]
                        /\ obs' = Hist(r, [obs EXCEPT ![r].redStale = Exists(outfile),
                                              ![r].stages = Append(@, "Reduce")])
                   ELSE /\ pc' = [pc EXCEPT ![r] = "panicked"]
                        /\ obs' = Hist(r, [obs EXCEPT ![r].redStale = Exists(outfile),
                                              ![r].stages = Append(@, "Reduce"),
                                              ![r].redRes = "panic",
                                              ![r].failStage = "Reduce"])
  /\ UNCHANGED <<dirs, cwd, lock, req, lastTc, lastFetch>>

\* What quantize_ggml returns once the quantizer has exited with status o.
QuantizeResult(o) == "ok"

\* Command::new(quantizer.as_os_str()).arg(model).arg(outfile).arg(quant_info.to_string()).output()?
quant_run(r) ==
  /\ pc[r] = "quantize"
  /\ \E o \in Outcomes, wrote \in BOOLEAN :
       /\ o = ExitOk => wrote
       /\ o = SpawnErr => ~wrote
       /\ files' = IF wrote THEN files \cup {loc[r].quantized_outfile} ELSE files
       /\ LET res == IF o = SpawnErr THEN "err" ELSE QuantizeResult(o) IN
            /\ obs' = Hist(r, [obs EXCEPT ![r].redInv = @ + 1, ![r].redExit = o,
                                  ![r].toolFailed = @ \/ o # ExitOk,
                                  ![r].redOutAtInv = Exists(loc[r].quantized_outfile),
                                  ![r].redRes = res,
                                  ![r].failStage = IF res = "ok" THEN @ ELSE "Reduce"])
            /\ pc' = [pc EXCEPT ![r] = IF res = "ok" THEN AfterStage("Reduce") ELSE "panicked"]
  /\ UNCHANGED <<dirs, cwd, lock, req, loc, lastTc, lastFetch>>

\* Json(ConversionResult { download_url: quantized_outfile })
jr_respond(r) ==
  /\ pc[r] = "respond"
  /\ pc' = [pc EXCEPT ![r] = "done"]
  /\ obs' = Hist(r, [obs EXCEPT ![r].response = loc[r].quantized_outfile])
  /\ UNCHANGED <<dirs, files, cwd, lock, req, loc, lastTc, lastFetch>>

(***************************************************************************)
(* Specification                                                           *)
(***************************************************************************)
Next ==
  \E r \in Reqs :
    \/ json_request(r)
    \/ tc_entry(r)
    \/ tc_wget(r)
    \/ tc_tar(r)
    \/ tc_rm(r)
    \/ tc_mv(r)
    \/ tc_check(r)
    \/ tc_build_check(r)
    \/ tc_make(r)
    \/ tc_verify(r)
    \/ tc_restore(r)
    \/ fetch_entry(r)
    \/ fetch_lock(r)
    \/ fetch_loop(r)
    \/ fetch_clone(r)
    \/ fetch_cloning(r)
    \/ jr_outputs(r)
    \/ conv_entry(r)
    \/ conv_run(r)
    \/ quant_entry(r)
    \/ quant_run(r)
    \/ jr_respond(r)

Spec == Init /\ [][Next]_vars

\* The same handlers with requests overlapping.
NextConc ==
  \E r \in Reqs :
    \/ json_request_concurrent(r)
    \/ tc_entry(r)
    \/ tc_wget(r)
    \/ tc_tar(r)
    \/ tc_rm(r)
    \/ tc_mv(r)
    \/ tc_check(r)
    \/ tc_build_check(r)
    \/ tc_make(r)
    \/ tc_verify(r)
    \/ tc_restore(r)
    \/ fetch_entry(r)
    \/ fetch_lock(r)
    \/ fetch_loop(r)
    \/ fetch_clone(r)
    \/ fetch_cloning(r)
    \/ jr_outputs(r)
    \/ conv_entry(r)
    \/ conv_run(r)
    \/ quant_entry(r)
    \/ quant_run(r)
    \/ jr_respond(r)

\* Overlapping requests are checked from the checkouts without a partial
\* llama.cpp tree and with at most the first model already fetched.
InitConc ==
  /\ Init
  /\ (LlamaCppRoot \in dirs) = (Join(LlamaCppRoot, "convert.py") \in files)
  /\ Join(ModelsRoot, RepoName("Llama2Chinese7b")) \notin dirs

SpecConc == InitConc /\ [][NextConc]_vars

(***************************************************************************)
(* Properties                                                              *)
(***************************************************************************)
Registered(r) == ModelTypeToString(req[r].name) \in DOMAIN MODELS

Ended(r) == pc[r] \in {"done", "panicked"}

\* What the client of request r gets: the handler's return type is
\* Json<ConversionResult>, its only response; a panic unwinds the handler.
HttpResponse(r) ==
  CASE pc[r] = "done" -> "json_ok"
    [] pc[r] = "panicked" -> "aborted"
    [] OTHER -> "pending"

InFetchLoop(r) == pc[r] \in {"loop", "clone", "cloning"}

\* C1: a request whose convert tool exited non-zero never invokes the
\* size-reduction binary afterwards.
C1_NoReduceAfterFailedConvert ==
  \A r \in Reqs : obs[r].convExit = ExitFail => obs[r].redInv = 0

\* C2: with the model directory absent, the name registered and every clone
\* attempt failing, the clone command is invoked at most 3 times, and exactly
\* 3 times once download_llama2_models has given up.
C2_ExactlyThreeClones ==
  \A r \in Reqs :
    (obs[r].dirMissing /\ Registered(r) /\ ~obs[r].cloneOk) =>
      /\ obs[r].clones <= 3
      /\ (obs[r].fetchRes # "none" => obs[r].clones = 3)

C2_Witness ==
  \E r \in Reqs :
    /\ obs[r].dirMissing /\ Registered(r) /\ ~obs[r].cloneOk
    /\ obs[r].fetchRes # "none"
    /\ obs[r].clones = 3

\* C3: when all fetch attempts have failed, download_llama2_models returns a
\* failure and the request stops at the Fetch stage, invoking neither convert
\* nor reduce.
C3_FetchFailureStopsRequest ==
  \A r \in Reqs :
    (obs[r].clones = 3 /\ ~obs[r].cloneOk /\ ~InFetchLoop(r)) =>
      /\ obs[r].fetchRes = "err"
      /\ pc[r] = "panicked" /\ obs[r].failStage = "Fetch"
      /\ obs[r].convInv = 0 /\ obs[r].redInv = 0

\* C4: a request whose convert tool exited non-zero ends as a failure naming
\* stage Convert, and never ends with a response carrying a download_url.
C4_ConvertFailureIsStageFailure ==
  \A r \in Reqs :
    obs[r].convExit = ExitFail =>
      /\ obs[r].response = NoPath
      /\ pc[r] # "done"
      /\ (pc[r] = "panicked" => obs[r].failStage = "Convert")

\* C5: when the size-reduction binary exits non-zero, quantize_ggml returns a
\* failure after that single invocation and the request returns no
\* download_url.
C5_ReduceFailureIsReported ==
  \A r \in Reqs :
    obs[r].redExit = ExitFail =>
      /\ obs[r].redRes = "err"
      /\ obs[r].redInv = 1
      /\ obs[r].response = NoPath /\ pc[r] # "done"

\* C6: a call of download_and_build_llama_cpp that follows a successful call,
\* with the toolchain tree and the working directory as that call left them,
\* enters neither the acquisition nor the build branch and invokes no
\* external process.
C6_ToolchainIdempotent ==
  \A r \in Reqs :
    obs[r].tcAfterOk =>
      /\ obs[r].tcProcs = 0
      /\ pc[r] \notin {"wget", "tar", "rm", "mv", "tc_check", "make", "verify", "restore"}
      /\ obs[r].tcRes \in {"none", "ok"}

C6_Witness ==
  \E r \in Reqs :
    /\ obs[r].tcAfterOk
    /\ obs[r].tcPrevProcs > 0
    /\ obs[r].tcRes = "ok"
    /\ obs[r].tcProcs = 0

\* C7: a call of download_llama2_models that follows a call for the same
\* source name whose clone succeeded, with models/ and the clone's target as
\* that call left them, invokes no clone process.
C7_FetchIdempotent ==
  \A r \in Reqs : obs[r].fetchAfterOk => (obs[r].clones = 0 /\ ~obs[r].dirMissing)

\* C8: a request whose source name is not in the MODELS registry invokes no
\* toolchain, fetch, convert or reduce process.
C8_UnregisteredRejectedFirst ==
  \A r \in Reqs :
    (pc[r] # "idle" /\ ~Registered(r)) =>
      /\ obs[r].tcProcs = 0
      /\ obs[r].clones = 0
      /\ obs[r].convInv = 0
      /\ obs[r].redInv = 0

\* C9: download_llama2_models, called for a name absent from the registry
\* with no local directory for it, never enters the retry loop, invokes no
\* clone, and returns a failure.
C9_UnknownArtifactShortCircuit ==
  \A r \in Reqs :
    (obs[r].dirMissing /\ ~Registered(r)) =>
      /\ obs[r].clones = 0
      /\ pc[r] \in {"lock", "panicked"}
      /\ (pc[r] = "panicked" => (obs[r].fetchRes = "err" /\ obs[r].failStage = "Fetch"))
      /\ lock # r

C9_Witness ==
  \E r \in Reqs :
    /\ obs[r].dirMissing /\ ~Registered(r)
    /\ pc[r] = "panicked" /\ obs[r].fetchRes = "err"

C11_VerifyFailureIsFatal ==
  \A r \in Reqs : obs[r].verifyExit = ExitFail => obs[r].tcRes # "ok"

\* C12: when the acquisition branch ran and the canonical toolchain directory
\* (llama_cpp_dir) is still absent after fetch, extract and rename, the call
\* fails: make is not invoked and the call does not return Ok.
C12_AbsentToolchainIsFatal ==
  \A r \in Reqs :
    (obs[r].acquired /\ obs[r].lcdAbsentAfter) =>
      /\ obs[r].makeInv = 0
      /\ pc[r] \in {"build_check", "panicked"}
      /\ obs[r].tcRes \in {"none", "err", "panic"}
      /\ (pc[r] = "panicked" => obs[r].failStage = "Toolchain")

\* the relative path llama.cpp exists, the canonical directory does not, and the call failed
C12_Witness ==
  \E r \in Reqs :
    /\ obs[r].acquired /\ obs[r].lcdAbsentAfter
    /\ Exists(Rel("llama.cpp"))
    /\ pc[r] = "panicked" /\ obs[r].tcRes = "err"

\* C19: whenever download_and_build_llama_cpp has returned, with Ok, Err or
\* a panic, the working directory is the one it found at entry.
C19_CwdRestoredOnReturn ==
  lastTc.res # "none" => lastTc.cwd = lastTc.entryCwd

\* C13: a request started on a clean filesystem, every tool of which exited
\* 0, ends with the response whose download_url is the file in outputs/ named
\* from the source and the profile, after exactly one clone, one build check,
\* one convert and one reduce invocation.
C13_CleanRunSucceeds ==
  \A r \in Reqs :
    (obs[r].cleanStart /\ ~obs[r].toolFailed /\ Ended(r)) =>
      /\ pc[r] = "done"
      /\ obs[r].response =
           Join(Join(Root, "outputs"), QuantizedFilename(req[r].name, req[r].quant_info))
      /\ obs[r].clones = 1
      /\ obs[r].verifyExit = ExitOk
      /\ obs[r].convInv = 1
      /\ obs[r].redInv = 1

\* A stage of request r has failed: a stage function returned Err or
\* panicked, or one of its tools exited non-zero, or every clone failed.
StageFailed(r) ==
  \/ obs[r].failStage # "none"
  \/ obs[r].verifyExit = ExitFail
  \/ (obs[r].clones = 3 /\ ~obs[r].cloneOk)
  \/ obs[r].convExit = ExitFail
  \/ obs[r].redExit = ExitFail

\* C14: every request one of whose stages failed is answered with a
\* server-error response; it gets neither a success response nor none.
C14_FailureIsServerError ==
  \A r \in Reqs : (Ended(r) /\ StageFailed(r)) => HttpResponse(r) = "server_error"

\* the first successful attempt, or 0
FirstOk(a) ==
  IF \E i \in 1..Len(a) : a[i] = ExitOk
  THEN CHOOSE i \in 1..Len(a) : a[i] = ExitOk /\ \A j \in 1..(i - 1) : a[j] # ExitOk
  ELSE 0

\* C20: whatever the clone outcomes, the loop makes at most 3 attempts, none
\* after a successful one, counts a spawn error as a failed attempt like a
\* non-zero exit, and is left after min(k, 3) attempts, k the first success.
C20_LoopEndsAtFirstSuccessOrThree ==
  \A r \in Reqs :
    LET a == obs[r].attempts
        running == IF pc[r] = "cloning" THEN 1 ELSE 0
    IN /\ obs[r].clones <= 3
       /\ InFetchLoop(r) =>
            /\ Len(a) + running = obs[r].clones
            /\ FirstOk(a) \in {0, Len(a)}
            /\ loc[r].retries = Cardinality({i \in 1..Len(a) : a[i] # ExitOk})
       /\ (pc[r] = "loop" /\ ~LoopAgain(loc[r].success, loc[r].retries)) =>
            Len(a) = IF FirstOk(a) # 0 THEN FirstOk(a) ELSE 3
       /\ obs[r].fetchRes # "none" =>
            /\ ~InFetchLoop(r)
            /\ (obs[r].dirMissing /\ Registered(r)) =>
                 (obs[r].cloneOk \/ obs[r].clones = 3)

\* a spawn error, then a non-zero exit, then a success: left after 3 attempts
C20_Witness ==
  \E r \in Reqs :
    /\ obs[r].attempts = <<SpawnErr, ExitFail, ExitOk>>
    /\ pc[r] = "loop" /\ ~LoopAgain(loc[r].success, loc[r].retries)

StageOrder == <<"Toolchain", "Fetch", "Convert", "Reduce">>

\* C15: a request enters its stages in the order Toolchain, Fetch, Convert,
\* Reduce, each at most once and only after the one before has returned Ok;
\* a stage's process is invoked only once that stage is entered; the response
\* is built only after all four, Reduce last, have returned.
C15_StagesStrictlySequential ==
  \A r \in Reqs :
    LET n == Len(obs[r].stages) IN
      /\ IsPrefix(obs[r].stages, StageOrder)
      /\ n >= 2 => obs[r].tcRes = "ok"
      /\ n >= 3 => obs[r].fetchRes = "ok"
      /\ n >= 4 => obs[r].convRes = "ok"
      /\ obs[r].tcProcs > 0 => n >= 1
      /\ obs[r].clones > 0 => n >= 2
      /\ obs[r].convInv > 0 => n >= 3
      /\ obs[r].redInv > 0 => n >= 4
      /\ obs[r].convInv <= 1 /\ obs[r].redInv <= 1
      /\ (pc[r] = "respond" \/ obs[r].response # NoPath) =>
           (obs[r].stages = StageOrder /\ obs[r].redRes = "ok")

C15_Witness ==
  \E r \in Reqs :
    /\ pc[r] = "done"
    /\ obs[r].stages = StageOrder
    /\ obs[r].makeInv = 1 /\ obs[r].clones > 0 /\ obs[r].convInv = 1 /\ obs[r].redInv = 1

\* C16: when a request has failed, every file or directory that its
\* completed upstream stages produced (the toolchain directory and binary,
\* the model directory, the intermediate output file) is still there.
C16_NoRollbackOnFailure ==
  \A r \in Reqs : pc[r] = "panicked" => obs[r].produced \subseteq (dirs \cup files)

\* a request that failed in Reduce with all three upstream products in place
C16_Witness ==
  \E r \in Reqs :
    /\ pc[r] = "panicked" /\ obs[r].failStage = "Reduce"
    /\ obs[r].redStale
    /\ {loc[r].llama_cpp_dir, loc[r].model_repo_dir, loc[r].outfile} \subseteq obs[r].produced

InvokedClone(r) == pc[r] = "cloning" \/ loc[r].success \/ loc[r].retries > 0

\* C17: the presence check of download_llama2_models is never held up by
\* another request, whoever holds MODELS, and a registered request that saw
\* its model directory absent goes on to clone without looking again: two
\* overlapping requests for one name can both see it absent and both clone.
C17_PresenceCheckNotExcluded ==
  \A r \in Reqs :
    /\ pc[r] = "fetch_entry" => ENABLED fetch_entry(r)
    /\ (obs[r].seen = "absent" /\ Registered(r) /\ pc[r] \in {"outputs", "conv_entry"}) =>
         InvokedClone(r)

\* the second request checked while the first held the lock for its own
\* clone, which then succeeded; the second clones the same url again
C17_Witness ==
  \E r1, r2 \in Reqs :
    /\ r1 # r2 /\ req[r1].name = req[r2].name
    /\ obs[r1].seen = "absent" /\ obs[r2].seen = "absent"
    /\ obs[r2].lockAtCheck = r1
    /\ loc[r1].url = loc[r2].url
    /\ loc[r1].success
    /\ pc[r2] = "cloning"

\* C18: however the requests overlap, at most one clone started by
\* download_llama2_models is running; MODELS is held by exactly the request
\* that is between its registry lookup and the end of its loop; and a request
\* that saw its model directory present has never taken the lock.
C18_OneCloneAtATime ==
  /\ Cardinality({r \in Reqs : pc[r] = "cloning"}) <= 1
  /\ \A r \in Reqs :
       /\ InFetchLoop(r) <=> lock = r
       /\ obs[r].seen = "present" => ~obs[r].locked
       /\ obs[r].locked => obs[r].seen = "absent"

\* one request's clone is running while another, which saw its directory
\* absent, waits for the lock, and neither is the request that found it present
C18_Witness ==
  \E r1, r2 \in Reqs :
    /\ pc[r1] = "cloning"
    /\ pc[r2] = "lock" /\ obs[r2].seen = "absent"
    /\ req[r1].name # req[r2].name

====
